---- MODULE Spec2Model ----
(***************************************************************************)
(* FewcentsVendor (extensions/amp-access-fewcents/0.1/fewcents-impl.js):   *)
(* the access vendor's authorize() flow, the overlay container life cycle  *)
(* and the purchase / already-purchased click handoff.                     *)
(*                                                                         *)
(* Every authorize() call is a flow f.  Its promise chain is cut where the *)
(* JavaScript event loop can interleave other work: the call itself (with  *)
(* the issue of the fetch), the response callbacks, the vsync frame that runs   *)
(* the queued mutators, and the render continuation (a microtask).  The    *)
(* response callbacks are promise reactions too, so the callback of one    *)
(* call can be queued ahead of the render continuation of another.         *)
(***************************************************************************)
EXTENDS Integers, Sequences, FiniteSets, TLC

\* Number of authorize() calls made on the adapter.
MaxCalls == 3
\* Number of clicks the reader makes on overlay buttons.
MaxClicks == 1
\* The well-formed PurchaseConfig bodies the vendor may send, by identity.
ConfigIds == {1, 2}

\* The authorize() calls that can be outstanding at once; a flow whose call has
\* completed carries the next call.
Flows == {1, 2}

VARIABLES
  purchaseConfig_,            \* this.purchaseConfig_
  purchaseButtonListener_,    \* this.purchaseButtonListener_ (0 = null, else listener id)
  alreadyPurchasedListener_,  \* this.alreadyPurchasedListener_ (0 = null, else listener id)
  containerEmpty_,            \* this.containerEmpty_
  innerContainer_,            \* this.innerContainer_ (0 = null, else overlay id)
  children,                   \* child nodes of the dialog container (overlay ids)
  listeners,                  \* click listeners registered and not yet disposed
  disposeLog,                 \* listener ids in the order their disposer was invoked
  overlays,                   \* number of overlay elements created so far
  vsyncTasks,                 \* mutators queued with vsync_.mutatePromise
  microtasks,                 \* render continuations queued on resolved promises
  removeCount,                \* number of removeChildren() invocations
  calls,                      \* number of authorize() calls so far
  pc,                         \* position of each authorize() flow
  result,                     \* settlement of the promise authorize() returned
  http,                       \* the network outcome each flow received
  fetchCount,                 \* fetchJson requests issued per flow
  emptied,                    \* what emptyContainer_() did when the flow called it
  rendered,                   \* how the flow's renderPurchaseOverlay_() ended
  touched,                    \* whether a step of the flow changed the adapter's render state
  startEmpty,                 \* containerEmpty_ when the flow's authorize() was called
  lastSettled,                \* how the authorize() that settled most recently ended
  last402,                    \* the 402 outcome that was processed most recently
  clicks,                     \* number of clicks so far
  prevented,                  \* the latest click, if its default action was suppressed
  buildUrlCalls,              \* URLs the latest click handed to accessSource_.buildUrl
  pendingUrls,                \* buildUrl promises not yet settled
  loginCalls,                 \* calls of accessSource_.loginWithUrl for the latest click
  pingbackResult,             \* the promise pingback() returned, if the latest step was a pingback()
  uncaught                    \* uncaught errors and unhandled rejections

renderVars == <<purchaseConfig_, purchaseButtonListener_, alreadyPurchasedListener_,
                containerEmpty_, innerContainer_, children, listeners, disposeLog,
                overlays, vsyncTasks, microtasks, removeCount>>
flowVars == <<calls, pc, result, http, fetchCount, emptied, rendered, touched, startEmpty,
              lastSettled, last402>>
clickVars == <<clicks, prevented, buildUrlCalls, pendingUrls, loginCalls>>
vars == <<renderVars, flowVars, clickVars, uncaught, pingbackResult>>

\* The fields the claims call RenderState, with the config and the queued work.
RenderState == <<purchaseConfig_, purchaseButtonListener_, alreadyPurchasedListener_,
                 containerEmpty_, innerContainer_, children, listeners,
                 vsyncTasks, microtasks>>

-----------------------------------------------------------------------------
(* Values *)

\* purchaseConfig_ values: null, undefined, or a parsed JSON object.
Null == [tag |-> "null", id |-> 0, hasOptions |-> FALSE]
Undefined == [tag |-> "undefined", id |-> 0, hasOptions |-> FALSE]
Config(i, o) == [tag |-> "object", id |-> i, hasOptions |-> o]

\* Response bodies.  parse: "fail" (not JSON, or empty), "null" (the JSON null),
\* "object".  status/access are the body's own fields (0 / "undefined" when absent);
\* id/hasOptions describe a PurchaseConfig body.
Body(p, s, a, i, o) == [parse |-> p, status |-> s, access |-> a, id |-> i, hasOptions |-> o]
NoBody == Body("fail", 0, "undefined", 0, FALSE)

\* Bodies of a 2xx response that carries content.
GrantBodies ==
  {NoBody, Body("null", 0, "undefined", 0, FALSE), Body("object", 204, "undefined", 0, FALSE)}
  \cup {Body("object", 0, a, 0, FALSE) : a \in {"true", "false", "undefined"}}

\* Bodies of a 402 response: malformed, a PurchaseConfig_0_2_Def with
\* purchase_options.price, or a JSON object without purchase_options.
DenyBodies ==
  {NoBody, Body("object", 0, "undefined", 1, FALSE)}
  \cup {Body("object", 0, "undefined", i, TRUE) : i \in ConfigIds}

WellFormed(b) == b.parse = "object" /\ b.hasOptions

\* Errors the authorization promise can reject with before any handler of authorize() runs.
Err(k, r, s) == [kind |-> k, hasResponse |-> r, status |-> s]
HttpErrors == {Err("http", TRUE, 402), Err("http", TRUE, 500)}
NetworkError == Err("network", FALSE, 0)

NoOutcome == [kind |-> "none", status |-> 0, body |-> NoBody]
Outcome(k, s, b) == [kind |-> k, status |-> s, body |-> b]

\* How an authorize() ended: the network outcome and the promise's settlement.
Settled(k, s, t) == [kind |-> k, status |-> s, type |-> t]
NotSettled == Settled("none", 0, "pending")

Pending == [type |-> "pending", access |-> "none", error |-> "none"]
Resolved(a) == [type |-> "resolved", access |-> a, error |-> "none"]
Rejected(e) == [type |-> "rejected", access |-> "none", error |-> e]

purchase_url(cfg) == <<"purchase_url", cfg.id>>
identify_url(cfg) == <<"identify_url", cfg.id>>

PurchaseListener(o) == [id |-> 2 * o - 1, kind |-> "purchase", overlay |-> o, href |-> <<"late", 0>>]
AlreadyPurchasedListenerOf(o, href) == [id |-> 2 * o, kind |-> "alreadyPurchased", overlay |-> o, href |-> href]

SeqToSet(s) == {s[i] : i \in 1..Len(s)}

Quiescent ==
  /\ \A f \in Flows : pc[f] \in {"idle", "done"}
  /\ vsyncTasks = <<>>
  /\ microtasks = <<>>

-----------------------------------------------------------------------------
Init ==
  /\ purchaseConfig_ = Null
  /\ purchaseButtonListener_ = 0
  /\ alreadyPurchasedListener_ = 0
  /\ containerEmpty_ = TRUE
  /\ innerContainer_ = 0
  /\ children = <<>>
  /\ listeners = {}
  /\ disposeLog = <<>>
  /\ overlays = 0
  /\ vsyncTasks = <<>>
  /\ microtasks = <<>>
  /\ removeCount = 0
  /\ calls = 0
  /\ pc = [f \in Flows |-> "idle"]
  /\ result = [f \in Flows |-> Pending]
  /\ http = [f \in Flows |-> NoOutcome]
  /\ fetchCount = [f \in Flows |-> 0]
  /\ emptied = [f \in Flows |-> "no"]
  /\ rendered = [f \in Flows |-> "none"]
  /\ touched = [f \in Flows |-> FALSE]
  /\ startEmpty = [f \in Flows |-> TRUE]
  /\ lastSettled = NotSettled
  /\ last402 = NoOutcome
  /\ clicks = 0
  /\ prevented = {}
  /\ buildUrlCalls = <<>>
  /\ pendingUrls = {}
  /\ loginCalls = <<>>
  /\ uncaught = {}
  /\ pingbackResult = "none"

-----------------------------------------------------------------------------
(* Bookkeeping of the flows *)

\* The record of a completed call is dropped at the next step: the value of a
\* per-flow variable v after a step of flow f (0: a step of no flow).
Upd(v, f, new, init) ==
  [g \in Flows |-> IF g = f THEN new ELSE IF pc[g] = "done" THEN init ELSE v[g]]

\* The per-flow variables after a step of flow f that moves it to position p with
\* promise state r, network outcome h, emptyContainer_ result e and render result rd.
FlowStep(f, p, r, h, e, rd) ==
  /\ pc' = Upd(pc, f, p, "idle")
  /\ result' = Upd(result, f, r, Pending)
  /\ http' = Upd(http, f, h, NoOutcome)
  /\ emptied' = Upd(emptied, f, e, "no")
  /\ rendered' = Upd(rendered, f, rd, "none")
  /\ fetchCount' = Upd(fetchCount, f, fetchCount[f], 0)
  /\ startEmpty' = Upd(startEmpty, f, startEmpty[f], TRUE)
  /\ touched' = Upd(touched, f, touched[f] \/ RenderState' # RenderState, FALSE)
  /\ pingbackResult' = "none"

\* The per-flow variables after a step that belongs to no flow.
NoFlowStep ==
  /\ pc' = Upd(pc, 0, "idle", "idle")
  /\ result' = Upd(result, 0, Pending, Pending)
  /\ http' = Upd(http, 0, NoOutcome, NoOutcome)
  /\ emptied' = Upd(emptied, 0, "no", "no")
  /\ rendered' = Upd(rendered, 0, "none", "none")
  /\ fetchCount' = Upd(fetchCount, 0, 0, 0)
  /\ startEmpty' = Upd(startEmpty, 0, TRUE, TRUE)
  /\ touched' = Upd(touched, 0, FALSE, FALSE)
  /\ pingbackResult' = "none"

\* Uncaught errors of render continuations.
RenderErrors == {e \in uncaught : e.src = "render"}

\* The click logs describe the latest click, and like the record of a completed
\* call they are dropped at the next step of a flow once the click's buildUrl
\* promise has settled.  The steps of authorize() read none of them.
RetireClick ==
  /\ clicks' = clicks
  /\ pendingUrls' = pendingUrls
  /\ prevented' = IF pendingUrls = {} THEN {} ELSE prevented
  /\ buildUrlCalls' = IF pendingUrls = {} THEN <<>> ELSE buildUrlCalls
  /\ loginCalls' = IF pendingUrls = {} THEN <<>> ELSE loginCalls

-----------------------------------------------------------------------------
(* authorize() and getPurchaseConfig_() *)

\* timer_.timeoutPromise(AUTHORIZATION_TIMEOUT, ...) rejects with an error that
\* carries no response when the fetch has not settled within the delay.
TimeoutError == Err("timeout", FALSE, 0)

AuthorizationErrors == HttpErrors \cup {NetworkError, TimeoutError}

\* accessSource_.buildUrl or accessSource_.getLoginUrl rejects: an error that
\* carries no response.
UrlError == Err("url", FALSE, 0)

\* The requests getPurchaseConfig_ issues: fetchJson is called in the
\* continuation of the two URL steps, once, and nothing calls it again.
FetchesIssuedMutant(urlOk) == IF urlOk THEN 2 ELSE 0
FetchesIssued(urlOk) == IF urlOk THEN 1 ELSE 0

\* authorize() is called: getPurchaseConfig_ builds the URL (buildUrl, then
\* getLoginUrl) and issues xhr_.fetchJson under the timeout.  The two URL steps
\* read and write nothing of the adapter, so the call and the issue of the fetch
\* are one step.  The call is carried by the first flow with no call outstanding.
Authorize(f) ==
  /\ calls < MaxCalls
  /\ pc[f] \in {"idle", "done"}
  /\ \A g \in Flows : g < f => pc[g] \notin {"idle", "done"}
  /\ calls' = calls + 1
  /\ pc' = Upd(pc, f, "fetching", "idle")
  /\ result' = Upd(result, f, Pending, Pending)
  /\ http' = Upd(http, f, NoOutcome, NoOutcome)
  /\ emptied' = Upd(emptied, f, "no", "no")
  /\ rendered' = Upd(rendered, f, "none", "none")
  /\ fetchCount' = Upd(fetchCount, f, FetchesIssued(TRUE), 0)
  /\ startEmpty' = Upd(startEmpty, f, containerEmpty_, TRUE)
  /\ touched' = Upd(touched, f, FALSE, FALSE)
  /\ pingbackResult' = "none"
  /\ RetireClick
  /\ uncaught' = RenderErrors
  /\ UNCHANGED <<renderVars, lastSettled, last402>>

\* if (this.containerEmpty_) return Promise.resolve();
EmptyIsNoOpMutant(empty) == FALSE
EmptyIsNoOp(empty) == empty

\* What emptyContainer_() returns: a resolved promise, or the promise of a
\* scheduled mutation.
EmptyResult == IF EmptyIsNoOp(containerEmpty_) THEN "resolved" ELSE "scheduled"

\* this.emptyContainer_().then(this.renderPurchaseOverlay_.bind(this)): the
\* render is a continuation of the promise emptyContainer_() returned, so of the
\* mutation when one was scheduled.
ChainedOnMutationMutant(cont) == FALSE
ChainedOnMutation(cont) == cont

\* emptyContainer_() called by flow f; cont: the caller chains the render on its promise.
emptyContainer_(f, cont) ==
  IF EmptyIsNoOp(containerEmpty_)
  THEN /\ microtasks' = IF cont THEN Append(microtasks, f) ELSE microtasks
       /\ UNCHANGED <<purchaseButtonListener_, alreadyPurchasedListener_, listeners,
                      disposeLog, vsyncTasks>>
  ELSE /\ purchaseButtonListener_' = 0
       /\ alreadyPurchasedListener_' = 0
       /\ listeners' = {l \in listeners :
                          l.id \notin {purchaseButtonListener_, alreadyPurchasedListener_}}
       /\ disposeLog' = disposeLog
                          \o (IF purchaseButtonListener_ # 0
                              THEN <<purchaseButtonListener_>> ELSE <<>>)
                          \o (IF alreadyPurchasedListener_ # 0
                              THEN <<alreadyPurchasedListener_>> ELSE <<>>)
       /\ vsyncTasks' = Append(vsyncTasks, [flow |-> f, render |-> ChainedOnMutation(cont)])
       /\ microtasks' = IF cont /\ ~ChainedOnMutation(cont)
                        THEN Append(microtasks, f) ELSE microtasks

\* return {access: response.access};
GrantedAccessMutant(body) == "true"
GrantedAccess(body) == body.access

\* The success path: .then((res) => res.json()) hands the parsed body to the first
\* callback of authorize(), which reads status and access from it.  A body that
\* does not parse rejects and is rethrown by the second callback (no response on
\* the error); the JSON null makes response.status throw.
AuthorizeVerdict(body) ==
  IF body.parse = "fail" THEN Rejected("SyntaxError")
  ELSE IF body.parse = "null" THEN Rejected("TypeError")
  ELSE IF body.status = 204 THEN Rejected("NoMatchingConfiguration")
  ELSE Resolved(GrantedAccess(body))

\* fetchJson resolved with a 2xx response (a 204 response has no content).
AuthorizeFulfilled(f, status, body) ==
  /\ pc[f] = "fetching"
  /\ status \in {200, 204}
  /\ body \in (IF status = 204 THEN {NoBody} ELSE GrantBodies)
  /\ IF AuthorizeVerdict(body).type = "resolved"
     THEN emptyContainer_(f, FALSE)
     ELSE UNCHANGED <<microtasks, purchaseButtonListener_, alreadyPurchasedListener_,
                      listeners, disposeLog, vsyncTasks>>
  /\ lastSettled' = Settled("ok", status, AuthorizeVerdict(body).type)
  /\ UNCHANGED <<purchaseConfig_, containerEmpty_, innerContainer_, children, overlays,
                 removeCount>>
  /\ RetireClick
  /\ uncaught' = RenderErrors
  /\ UNCHANGED <<calls, last402>>
  /\ FlowStep(f, "done", AuthorizeVerdict(body), Outcome("ok", status, body),
              IF AuthorizeVerdict(body).type = "resolved" THEN EmptyResult ELSE "no",
              "none")

\* if (!err || !err.response) throw err;  if (response.status !== 402) throw err;
IsDenialMutant(err) == ~err.hasResponse \/ err.status = 402
IsDenial(err) == err.hasResponse /\ err.status = 402

\* throw err;  the caller's promise rejects with the error the callback received.
RethrownMutant(err) == "UnexpectedStatus"
Rethrown(err) == err.kind

\* The authorization promise rejected with anything but a 402 response: rethrown.
AuthorizeRejected(f, err) ==
  /\ pc[f] = "fetching"
  /\ err \in AuthorizationErrors
  /\ ~IsDenial(err)
  /\ lastSettled' = Settled(err.kind, err.status, "rejected")
  /\ RetireClick
  /\ uncaught' = RenderErrors
  /\ UNCHANGED <<renderVars, calls, last402>>
  /\ FlowStep(f, "done", Rejected(Rethrown(err)), Outcome(err.kind, err.status, NoBody),
              "no", "none")

\* response.json().catch(() => undefined)
ResponseJsonMutant(body) ==
  IF body.parse = "object" THEN Config(body.id, body.hasOptions) ELSE Null
ResponseJson(body) ==
  IF body.parse = "object" THEN Config(body.id, body.hasOptions) ELSE Undefined

\* authorize() is called and one of the URL steps of getPurchaseConfig_ rejects:
\* fetchJson is never called, and the error callback rethrows the error, which
\* carries no response.  The URL steps touch nothing of the adapter, so the call
\* and its rejection are one step.
AuthorizeUrlRejected(f) ==
  /\ calls < MaxCalls
  /\ pc[f] \in {"idle", "done"}
  /\ \A g \in Flows : g < f => pc[g] \notin {"idle", "done"}
  /\ ~IsDenial(UrlError)
  /\ calls' = calls + 1
  /\ pc' = Upd(pc, f, "done", "idle")
  /\ result' = Upd(result, f, Rejected(Rethrown(UrlError)), Pending)
  /\ http' = Upd(http, f, Outcome(UrlError.kind, UrlError.status, NoBody), NoOutcome)
  /\ emptied' = Upd(emptied, f, "no", "no")
  /\ rendered' = Upd(rendered, f, "none", "none")
  /\ fetchCount' = Upd(fetchCount, f, FetchesIssued(FALSE), 0)
  /\ startEmpty' = Upd(startEmpty, f, containerEmpty_, TRUE)
  /\ touched' = Upd(touched, f, FALSE, FALSE)
  /\ pingbackResult' = "none"
  /\ lastSettled' = Settled(UrlError.kind, UrlError.status, "rejected")
  /\ RetireClick
  /\ uncaught' = RenderErrors
  /\ UNCHANGED <<renderVars, last402>>

\* The 402 path: store the body, empty the container, chain the render, resolve.
AuthorizeDenied(f, err, body) ==
  /\ pc[f] = "fetching"
  /\ err \in AuthorizationErrors
  /\ body \in DenyBodies
  /\ IsDenial(err)
  /\ purchaseConfig_' = ResponseJson(body)
  /\ emptyContainer_(f, TRUE)
  /\ lastSettled' = Settled(err.kind, err.status, "resolved")
  /\ last402' = Outcome(err.kind, err.status, body)
  /\ UNCHANGED <<containerEmpty_, innerContainer_, children, overlays, removeCount>>
  /\ RetireClick
  /\ uncaught' = RenderErrors
  /\ UNCHANGED calls
  /\ FlowStep(f, "awaitRender", Resolved("false"), Outcome(err.kind, err.status, body),
              EmptyResult, "none")

\* The caller of authorize() has seen its promise settle.  The 402 callback
\* returns {access: false} without waiting for the render; the promise settles a
\* few microtasks later, so after a render continuation queued by the callback
\* itself (emptyContainer_() returned a resolved promise) and before the vsync
\* frame when the render waits for a mutation.
Observed(f) ==
  \/ pc[f] = "done"
  \/ pc[f] = "awaitRender" /\ emptied[f] = "scheduled"

-----------------------------------------------------------------------------
(* The vsync frame and the render continuation *)

\* The flows whose render is chained on a mutator of the queue, in queue order.
RECURSIVE RenderFlows(_)
RenderFlows(tasks) ==
  IF tasks = <<>> THEN <<>>
  ELSE (IF Head(tasks).render THEN <<Head(tasks).flow>> ELSE <<>>) \o RenderFlows(Tail(tasks))

\* removeChildren(this.getContainer_())
removeChildrenMutant(ch) == ch
removeChildren(ch) == <<>>

\* vsync runs every queued mutator in one frame, in order; each resolves its
\* promise, which queues the render continuation chained on it.
VsyncFrame ==
  /\ vsyncTasks # <<>>
  /\ containerEmpty_' = TRUE
  /\ innerContainer_' = 0
  /\ children' = removeChildren(children)
  /\ removeCount' = removeCount + Len(vsyncTasks)
  /\ microtasks' = microtasks \o RenderFlows(vsyncTasks)
  /\ vsyncTasks' = <<>>
  /\ UNCHANGED <<purchaseConfig_, purchaseButtonListener_, alreadyPurchasedListener_,
                 listeners, disposeLog, overlays>>
  /\ RetireClick
  /\ uncaught' = RenderErrors
  /\ UNCHANGED <<calls, lastSettled, last402>>
  /\ pc' = Upd(pc, 0, "idle", "idle")
  /\ result' = Upd(result, 0, Pending, Pending)
  /\ http' = Upd(http, 0, NoOutcome, NoOutcome)
  /\ emptied' = Upd(emptied, 0, "no", "no")
  /\ rendered' = Upd(rendered, 0, "none", "none")
  /\ fetchCount' = Upd(fetchCount, 0, 0, 0)
  /\ startEmpty' = Upd(startEmpty, 0, TRUE, TRUE)
  /\ touched' = [g \in Flows |->
                   IF pc[g] = "done" THEN FALSE
                   ELSE touched[g] \/ g \in SeqToSet(RenderFlows(vsyncTasks))]
  /\ pingbackResult' = "none"

\* new Intl.NumberFormat('en-EN', {style: 'currency', currency}) throws a TypeError
\* when currency is undefined, which it is unless purchaseConfig_ is an object
\* with purchase_options.price.currency.
PriceFormatThrows(cfg) == cfg.tag # "object" \/ ~cfg.hasOptions

\* createAlreadyPurchasedLink_(href): the listener captures href.
createAlreadyPurchasedLink_(o, href) == AlreadyPurchasedListenerOf(o, href)

\* The listeners one render registers: the purchase button's, then the link's.
RenderListeners(o, cfg) ==
  {PurchaseListener(o), createAlreadyPurchasedLink_(o, identify_url(cfg))}

\* renderPurchaseOverlay_(), the continuation at the head of the microtask queue.
\* Nobody handles a rejection of emptyContainer_().then(render).
RunRender ==
  /\ microtasks # <<>>
  /\ LET f == Head(microtasks)
         o == overlays + 1
     IN /\ microtasks' = Tail(microtasks)
        /\ overlays' = o
        /\ innerContainer_' = o
        /\ IF PriceFormatThrows(purchaseConfig_)
           THEN /\ uncaught' = RenderErrors \cup {[src |-> "render", id |-> 0]}
                /\ UNCHANGED <<purchaseButtonListener_, alreadyPurchasedListener_,
                               listeners, children, containerEmpty_>>
           ELSE /\ purchaseButtonListener_' = PurchaseListener(o).id
                /\ alreadyPurchasedListener_' =
                     createAlreadyPurchasedLink_(o, identify_url(purchaseConfig_)).id
                /\ listeners' = listeners \cup RenderListeners(o, purchaseConfig_)
                /\ children' = Append(children, o)
                /\ containerEmpty_' = FALSE
                /\ uncaught' = RenderErrors
        /\ RetireClick
        /\ UNCHANGED <<purchaseConfig_, disposeLog, vsyncTasks, removeCount>>
        /\ UNCHANGED <<calls, lastSettled, last402>>
        /\ FlowStep(f, "done", result[f], http[f], emptied[f],
                    IF PriceFormatThrows(purchaseConfig_) THEN "threw" ELSE "ok")

-----------------------------------------------------------------------------
(* Clicks and the purchase / login handoff *)

\* accessSource_.buildUrl(url, false): the URL with the reader's variables expanded.
buildUrl(url) == <<"decorated", url>>

\* handlePurchase_(ev, purchaseUrl) declares two parameters: a third argument
\* passed by a caller is dropped, and loginWithUrl receives the URL alone.
LoginCall(c, kind, url, purchaseType) ==
  [click |-> c, kind |-> kind, url |-> buildUrl(url), mode |-> "none"]

\* handlePurchase_ up to the pending buildUrl promise: ev.preventDefault(), then
\* accessSource_.buildUrl(purchaseUrl, false).
handlePurchase_Mutant(c, kind, purchaseUrl, purchaseType) ==
  /\ prevented' = {}
  /\ buildUrlCalls' = <<purchaseUrl>>
  /\ pendingUrls' =
       {[click |-> c, kind |-> kind, url |-> purchaseUrl, purchaseType |-> purchaseType]}
handlePurchase_(c, kind, purchaseUrl, purchaseType) ==
  /\ prevented' = {c}
  /\ buildUrlCalls' = <<purchaseUrl>>
  /\ pendingUrls' =
       {[click |-> c, kind |-> kind, url |-> purchaseUrl, purchaseType |-> purchaseType]}

\* A click on a button of an overlay that is in the container.  handlePurchase_
\* shares no state between its invocations, so clicks are taken one at a time:
\* the next click comes when the previous click's buildUrl promise has settled.
Click(l) ==
  /\ l \in listeners
  /\ l.overlay \in SeqToSet(children)
  /\ clicks < MaxClicks
  /\ pendingUrls = {}
  /\ clicks' = clicks + 1
  /\ loginCalls' = <<>>
  /\ IF l.kind = "purchase"
     THEN \* this.purchaseConfig_.purchase_options.purchase_url is read at click time
          IF purchaseConfig_.tag = "object" /\ purchaseConfig_.hasOptions
          THEN /\ handlePurchase_(clicks + 1, l.kind, purchase_url(purchaseConfig_), "none")
               /\ uncaught' = RenderErrors
          ELSE /\ uncaught' = RenderErrors \cup {[src |-> "click", id |-> clicks + 1]}
               /\ prevented' = {}
               /\ buildUrlCalls' = <<>>
               /\ pendingUrls' = {}
     ELSE /\ handlePurchase_(clicks + 1, l.kind, l.href, "alreadyPurchased")
          /\ uncaught' = RenderErrors
  /\ UNCHANGED <<renderVars, calls, lastSettled, last402>>
  /\ NoFlowStep

\* urlPromise.then((url) => this.accessSource_.loginWithUrl(url))
UrlResolved(p) ==
  /\ p \in pendingUrls
  /\ pendingUrls' = pendingUrls \ {p}
  /\ loginCalls' = Append(loginCalls, LoginCall(p.click, p.kind, p.url, p.purchaseType))
  /\ UNCHANGED <<renderVars, calls, lastSettled, last402>>
  /\ UNCHANGED <<clicks, prevented, buildUrlCalls, uncaught>>
  /\ NoFlowStep

\* buildUrl rejects: handlePurchase_ returns the rejected promise to a listener
\* that drops it.
UrlRejected(p) ==
  /\ p \in pendingUrls
  /\ pendingUrls' = pendingUrls \ {p}
  /\ uncaught' = uncaught \cup {[src |-> "buildUrl", id |-> p.click]}
  /\ UNCHANGED <<renderVars, calls, lastSettled, last402>>
  /\ UNCHANGED <<clicks, prevented, buildUrlCalls, loginCalls>>
  /\ NoFlowStep

-----------------------------------------------------------------------------
(* pingback() *)

\* return Promise.resolve();
PingbackPromiseMutant == "rejected"
PingbackPromise == "resolved"

\* pingback() can be called in any state of the adapter.
Pingback ==
  /\ pingbackResult' = PingbackPromise
  /\ UNCHANGED <<renderVars, flowVars, clickVars, uncaught>>

-----------------------------------------------------------------------------
(* Specifications *)

Respond(f) ==
  \/ \E status \in {200, 204}, body \in GrantBodies : AuthorizeFulfilled(f, status, body)
  \/ \E err \in AuthorizationErrors : AuthorizeRejected(f, err)
  \/ \E err \in AuthorizationErrors, body \in DenyBodies : AuthorizeDenied(f, err, body)

Reader ==
  \/ \E l \in listeners : Click(l)
  \/ \E p \in pendingUrls : UrlResolved(p)
  \/ \E p \in pendingUrls : UrlRejected(p)

\* A call of authorize(), up to the issue of the fetch or the failure to build its URL.
Call(f) == Authorize(f) \/ AuthorizeUrlRejected(f)

Next ==
  \/ \E f \in Flows : Call(f)
  \/ \E f \in Flows : Respond(f)
  \/ VsyncFrame
  \/ RunRender
  \/ Reader
  \/ Pingback

\* Any interleaving of authorize() calls, callbacks, frames and clicks.
Spec == Init /\ [][Next]_vars

\* The adapter used one call at a time: authorize() is called only when no
\* earlier call, mutator or render continuation is outstanding.
AuthorizeInTurn(f) == Quiescent /\ Call(f)

NextInTurn ==
  \/ \E f \in Flows : AuthorizeInTurn(f)
  \/ \E f \in Flows : Respond(f)
  \/ VsyncFrame
  \/ RunRender
  \/ Reader
  \/ Pingback

\* The timeout settles every fetch, vsync runs its frames and the microtask
\* queue drains.
Progress ==
  /\ \A f \in Flows : WF_vars(Respond(f))
  /\ WF_vars(VsyncFrame)
  /\ WF_vars(RunRender)

SpecInTurn == Init /\ [][NextInTurn]_vars /\ Progress

-----------------------------------------------------------------------------
(* Properties *)

\* Click listeners of one kind that are registered and not disposed.
LiveCount(kind) == Cardinality({l \in listeners : l.kind = kind})

\* Flow f received a 402 response.
Denied402(f) == http[f].kind = "http" /\ http[f].status = 402

\* A call answered 402 with a well-formed PurchaseConfig, made on an empty container.
C1Case(f) == Denied402(f) /\ WellFormed(http[f].body) /\ startEmpty[f]

\* C1: a call answered 402 with a well-formed PurchaseConfig, made on an empty
\* container, resolves {access: false}, and when its render continuation has
\* run the container is non-empty with one overlay in it and exactly one
\* purchase listener and one already-purchased listener are registered.
C1DenialRendersOnce ==
  \A f \in Flows :
    C1Case(f) =>
      /\ result[f] = Resolved("false")
      /\ pc[f] = "done" =>
           /\ rendered[f] = "ok"
           /\ ~containerEmpty_
           /\ Len(children) = 1
           /\ LiveCount("purchase") = 1
           /\ LiveCount("alreadyPurchased") = 1

\* The same with the calls made one after the other (SpecInTurn), where it
\* holds: the call resolves, the container goes from empty to non-empty with
\* one overlay and one listener of each kind, and the render is reached.
C1Transition ==
  (containerEmpty_ /\ ~containerEmpty_') =>
    /\ Len(children') = 1
    /\ Cardinality({l \in listeners' : l.kind = "purchase"}) = 1
    /\ Cardinality({l \in listeners' : l.kind = "alreadyPurchased"}) = 1
    /\ purchaseButtonListener_' # 0
    /\ alreadyPurchasedListener_' # 0

C1Rendered(f) ==
  /\ C1Case(f)
  /\ pc[f] = "done"
  /\ rendered[f] = "ok"
  /\ ~containerEmpty_
  /\ Len(children) = 1

C1HoldsInTurn ==
  /\ []C1DenialRendersOnce
  /\ [][C1Transition]_vars
  /\ \A f \in Flows : (C1Case(f) /\ pc[f] = "awaitRender") ~> C1Rendered(f)

\* C2 as stated: every 2xx response other than 204 resolves with access true,
\* whatever the body.
C2AccessAlwaysTrue ==
  \A f \in Flows :
    (http[f].kind = "ok" /\ http[f].status # 204) => result[f] = Resolved("true")

\* C2 as amended: a 2xx response other than 204 whose body parses as a JSON
\* object with no status field of 204 resolves with the body's own access
\* field; a body that does not parse, the JSON null, or a body whose status
\* field is 204 rejects.
C2AccessFromBody ==
  \A f \in Flows :
    (http[f].kind = "ok" /\ http[f].status # 204) =>
      IF http[f].body.parse = "object" /\ http[f].body.status # 204
      THEN result[f] = Resolved(http[f].body.access)
      ELSE result[f].type = "rejected"

C2Witness ==
  \E f \in Flows :
    /\ http[f].kind = "ok" /\ http[f].status = 200
    /\ http[f].body.parse = "object" /\ http[f].body.access = "false"
    /\ result[f] = Resolved("false")

\* C3: the dialog container never holds more than one overlay.
C3AtMostOneOverlay == Len(children) <= 1

\* C4: with the calls made one after the other, when the latest call ended in a
\* 402 denial there is exactly one live purchase listener and exactly one live
\* already-purchased listener, and they are the ones in the adapter's slots.
C4OneListenerEach ==
  (Quiescent /\ lastSettled.status = 402) =>
    /\ LiveCount("purchase") = 1
    /\ LiveCount("alreadyPurchased") = 1
    /\ \A l \in listeners : l.id \in {purchaseButtonListener_, alreadyPurchasedListener_}

\* C5: a 402 whose body does not parse resolves {access: false}, and its render
\* completes without throwing, with the overlay appended and containerEmpty_ false.
C5MalformedBodyRenders ==
  \A f \in Flows :
    (Denied402(f) /\ http[f].body.parse = "fail") =>
      /\ result[f] = Resolved("false")
      /\ rendered[f] # "threw"
      /\ pc[f] = "done" => (rendered[f] = "ok" /\ ~containerEmpty_ /\ Len(children) >= 1)

\* C6: a 204 response rejects with NoMatchingConfiguration and changes nothing
\* of the render state.
C6NoContentRejects ==
  \A f \in Flows :
    (http[f].kind = "ok" /\ http[f].status = 204) =>
      /\ result[f] = Rejected("NoMatchingConfiguration")
      /\ ~touched[f]
      /\ emptied[f] = "no"

\* C7 as stated: in a quiescent state a PurchaseConfig is held exactly when the
\* call that completed most recently ended in a 402.
C7PresentIffLast402 ==
  Quiescent => ((purchaseConfig_.tag = "object") <=> (lastSettled.status = 402))

\* C7 as amended: purchaseConfig_ is what the most recently processed 402
\* response left: its parsed body, undefined when that body did not parse, and
\* null before any 402; no later grant, 204 or error clears it.
C7HoldsLatest402Body ==
  IF last402.kind = "none" THEN purchaseConfig_.tag = "null"
  ELSE IF last402.body.parse = "object"
       THEN purchaseConfig_ = [tag |-> "object", id |-> last402.body.id,
                               hasOptions |-> last402.body.hasOptions]
       ELSE purchaseConfig_.tag = "undefined"

C7Witness ==
  /\ Quiescent
  /\ lastSettled.kind = "ok" /\ lastSettled.type = "resolved"
  /\ purchaseConfig_.tag = "object"

\* C8 as stated: two emptyContainer_() calls in a row on a populated container
\* schedule one removal only, the second call being a no-op.
C8OneRemovalScheduled == Len(vsyncTasks) <= 1

\* C8 as amended: emptyContainer_() called while containerEmpty_ is true
\* resolves at once, schedules no mutation and disposes nothing; called while
\* containerEmpty_ is false (also when an earlier call's mutation is still
\* queued) it nulls both listener slots and schedules one more mutation.
C8Step ==
  \A f \in Flows :
    (emptied[f] = "no" /\ emptied'[f] # "no") =>
      IF containerEmpty_
      THEN /\ emptied'[f] = "resolved"
           /\ vsyncTasks' = vsyncTasks
           /\ disposeLog' = disposeLog
           /\ removeCount' = removeCount
      ELSE /\ emptied'[f] = "scheduled"
           /\ Len(vsyncTasks') = Len(vsyncTasks) + 1
           /\ purchaseButtonListener_' = 0
           /\ alreadyPurchasedListener_' = 0

C8EmptyOnlyWhenPopulated == [][C8Step]_vars

C8Witness == Len(vsyncTasks) = 2 /\ \E f \in Flows : emptied[f] = "scheduled"

\* C9: a call whose fetch times out rejects with the timeout error, and no step
\* of the call changes the render state or invokes emptyContainer_().
C9TimeoutRejectsUntouched ==
  \A f \in Flows :
    http[f].kind = "timeout" =>
      /\ pc[f] = "done"
      /\ result[f] = Rejected("timeout")
      /\ ~touched[f]
      /\ emptied[f] = "no"

C9Witness ==
  \E f \in Flows : http[f].kind = "timeout" /\ result[f].type = "rejected" /\ ~containerEmpty_

\* C10: a click leads to at most one loginWithUrl call, with the decorated URL
\* handed to buildUrl, and the call carries the already-purchased mode marker
\* exactly when the click was on the already-purchased button.
C10HandoffCarriesMode ==
  /\ Len(loginCalls) <= 1
  /\ \A i \in 1..Len(loginCalls) :
       /\ Len(buildUrlCalls) = 1
       /\ loginCalls[i].url = <<"decorated", buildUrlCalls[1]>>
       /\ (loginCalls[i].kind = "alreadyPurchased") <=> (loginCalls[i].mode = "alreadyPurchased")

\* C11: a call whose authorization promise rejects with anything but a 402
\* response (another error status, a network error, an error without a
\* response) rejects with that same error, has issued no second request, and
\* no step of it changed purchaseConfig_, containerEmpty_, the listener slots,
\* the listeners or the container's children, or called emptyContainer_().
C11OtherErrorsRethrown ==
  \A f \in Flows :
    (http[f].kind \in {"http", "network", "timeout", "url"} /\ ~Denied402(f)) =>
      /\ pc[f] = "done"
      /\ result[f] = Rejected(http[f].kind)
      /\ fetchCount[f] <= 1
      /\ ~touched[f]
      /\ emptied[f] = "no"
      /\ rendered[f] = "none"

C11Witness ==
  \E f \in Flows :
    /\ http[f].kind = "http" /\ http[f].status = 500
    /\ result[f] = Rejected("http")
    /\ ~containerEmpty_
    /\ purchaseConfig_.tag = "object"

\* C12: no disposer is invoked twice, and every listener whose overlay is no
\* longer in the container has been disposed: a listener still registered
\* belongs to an overlay that is still a child of the container.
C12DisposedExactlyOnce ==
  /\ \A i, j \in 1..Len(disposeLog) : disposeLog[i] = disposeLog[j] => i = j
  /\ \A l \in listeners : l.overlay \in SeqToSet(children)

\* C13 as stated: every authorize() call has issued exactly one fetchJson request.
C13ExactlyOneFetch ==
  \A f \in Flows : pc[f] # "idle" => fetchCount[f] = 1

\* C13 as amended: every authorize() call issues at most one fetchJson request:
\* exactly one when buildUrl and getLoginUrl resolved, whatever the response
\* (grant, 204, 402, another error, timeout), and none when a URL step rejected.
C13OneFetchOnceUrlBuilt ==
  \A f \in Flows :
    pc[f] # "idle" => fetchCount[f] = (IF http[f].kind = "url" THEN 0 ELSE 1)

C13Witness ==
  \E f, g \in Flows :
    /\ http[f].kind = "url" /\ result[f].type = "rejected" /\ fetchCount[f] = 0
    /\ Denied402(g) /\ pc[g] = "awaitRender" /\ fetchCount[g] = 1

\* C14: a pingback() call returns a resolved promise, in every state, and the
\* step changes nothing else: no request is issued, and purchaseConfig_,
\* containerEmpty_, the listener slots, the listeners, the container's children
\* and the queued work are what they were.
C14Step ==
  pingbackResult' # "none" =>
    /\ pingbackResult' = "resolved"
    /\ UNCHANGED <<renderVars, flowVars, clickVars, uncaught>>

C14PingbackNoEffect == [][C14Step]_vars

C14Witness ==
  /\ pingbackResult = "resolved"
  /\ ~containerEmpty_
  /\ \E f \in Flows : pc[f] = "fetching"

\* C15: when the authorize() that settled last was a grant and no callback,
\* mutation or render continuation is outstanding, the container is empty
\* (containerEmpty_ true, no overlay child) and no click listener is registered.
C15GrantLeavesEmpty ==
  (Quiescent /\ lastSettled.kind = "ok" /\ lastSettled.type = "resolved") =>
    /\ containerEmpty_
    /\ children = <<>>
    /\ listeners = {}

\* C16 as stated: when the caller sees a 402 call resolve, the call's render
\* has already run.
C16ResolvesAfterRender ==
  \A f \in Flows : (Denied402(f) /\ Observed(f)) => rendered[f] # "none"

\* C16 as amended: the 402 callback stores the parsed body, calls
\* emptyContainer_() and resolves {access: false} in one step, without running
\* the render; the render runs later, as a continuation, and never while the
\* clearing mutation this call scheduled is still queued.
C16Step ==
  \A f \in Flows :
    /\ (pc[f] = "fetching" /\ Denied402(f)') =>
         /\ purchaseConfig_' = ResponseJson(http'[f].body)
         /\ emptied'[f] # "no"
         /\ result'[f] = Resolved("false")
         /\ rendered'[f] = "none"
    /\ (rendered[f] = "none" /\ rendered'[f] # "none") =>
         /\ Denied402(f)
         /\ result[f] = Resolved("false")
         /\ emptied[f] # "no"
         /\ \A i \in 1..Len(vsyncTasks) : vsyncTasks[i].flow # f

C16RenderChainedNotAwaited == [][C16Step]_vars

C16Witness ==
  \E f \in Flows :
    /\ Denied402(f) /\ Observed(f)
    /\ result[f] = Resolved("false")
    /\ rendered[f] = "none"
    /\ \E i \in 1..Len(vsyncTasks) : vsyncTasks[i].flow = f

\* C17: whenever handlePurchase_ has handed a URL to buildUrl, the click's
\* default action is suppressed; and when buildUrl rejects, loginWithUrl is not
\* called for the click, the rejection is an unhandled one, and the step leaves
\* purchaseConfig_, containerEmpty_, the listener slots, the container and the
\* queued work as they were.
C17Handled ==
  /\ buildUrlCalls # <<>> => prevented = {clicks}
  /\ pendingUrls # {} => prevented = {clicks}
  /\ \A e \in uncaught : e.src = "buildUrl" => (loginCalls = <<>> /\ pendingUrls = {})

C17Step ==
  (pendingUrls # {} /\ pendingUrls' = {} /\ loginCalls' = loginCalls) =>
    /\ [src |-> "buildUrl", id |-> clicks] \in uncaught'
    /\ loginCalls' = <<>>
    /\ RenderState' = RenderState

C17PreventsAndPropagates == []C17Handled /\ [][C17Step]_vars

C17Witness ==
  /\ [src |-> "buildUrl", id |-> clicks] \in uncaught
  /\ prevented = {clicks}
  /\ loginCalls = <<>>
  /\ ~containerEmpty_

\* C18: containerEmpty_ is true exactly when the dialog container has no overlay
\* child, in every reachable state, also after a render that threw part-way.
C18FlagMatchesContainer == containerEmpty_ <=> (children = <<>>)

C18Witness ==
  /\ RenderErrors # {}
  /\ innerContainer_ # 0
  /\ containerEmpty_
  /\ children = <<>>
  /\ \E f \in Flows : rendered[f] = "threw"

\* C19: while a purchase-button listener is registered on an overlay that is in
\* the container, purchaseConfig_ is a PurchaseConfig with purchase options and
\* is the config whose identify_url the already-purchased listener of the same
\* overlay captured; and no purchase click throws reading purchaseConfig_.
C19PurchaseConfigMatchesOverlay ==
  /\ \A l \in listeners :
       (l.kind = "purchase" /\ l.overlay \in SeqToSet(children)) =>
         /\ purchaseConfig_.tag = "object"
         /\ purchaseConfig_.hasOptions
         /\ \A m \in listeners :
              (m.kind = "alreadyPurchased" /\ m.overlay = l.overlay) =>
                m.href = identify_url(purchaseConfig_)
  /\ \A e \in uncaught : e.src # "click"

====
